---- MODULE Spec2Model ----
(***************************************************************************)
(* Session / token lifecycle (lib/auth: refreshAccessToken and the jwt     *)
(* callback of authOptions) and the route guard (middleware.ts: withAuth   *)
(* with the authorized callback and the role middleware) of the online     *)
(* quiz system frontend.                                                   *)
(*                                                                         *)
(* A JWT record (CustomJWT) is a TLA+ record with the five custom fields.  *)
(* A field that is `undefined` or deleted holds Undefined (strings) or     *)
(* NoExpiry (the numeric field accessTokenExpires).  The backend user      *)
(* object is identified by its role, the only property the guard reads.    *)
(*                                                                         *)
(* Further sections model the backend call helper (lib/api.ts: fetchApi,   *)
(* with the page helpers getAttempts and getQuizzes) and the two forms     *)
(* (components/QuizManageForm and components/QuizAttemptForm).             *)
(***************************************************************************)
EXTENDS Integers, Sequences, FiniteSets, TLC

VARIABLES
    now,        \* Date.now(), in milliseconds since the start of the run
    ticks,      \* number of clock steps taken (bounds the run)
    cookie,     \* TRUE when the browser holds a session cookie
    session,    \* the CustomJWT stored in the session cookie
    pc,         \* per request: "idle", or the backend call it awaits
    inv,        \* per request: the running invocation (function, argument, calls)
    last,       \* the most recently completed operation and what it returned
    quizData,   \* QuizManageForm: the quizData state (the list of questions)
    heap,       \* QuizManageForm: the answer_options arrays and the option objects
    answers,    \* QuizAttemptForm: the answers state
    history     \* QuizAttemptForm: what the user has clicked so far (not program state)

\* the state of the session layer and the state of the two forms
authVars == <<now, ticks, cookie, session, pc, inv>>
formVars == <<quizData, heap, answers, history>>

vars == <<now, ticks, cookie, session, pc, inv, last, quizData, heap, answers, history>>

----------------------------------------------------------------------------
(* Bounds of the model *)

MaxTicks == 2

Procs == {"req1", "req2"}

(* Values the backend can hand out *)
AccessTokens == {"a1", "a2"}
RefreshTokens == {"r1", "r2"}
Roles == {"ADMIN", "TEACHER", "STUDENT"}

----------------------------------------------------------------------------
(* Data model: CustomJWT *)

Undefined == "undefined"

NoExpiry == -1

ACCESS_TOKEN_LIFETIME_MS == 5 * 60 * 1000

MissingRefreshTokenError == "MissingRefreshTokenError"
RefreshAccessTokenError == "RefreshAccessTokenError"
BackendLoginFailed == "BackendLoginFailed"

ErrorTags == {MissingRefreshTokenError, RefreshAccessTokenError, BackendLoginFailed}

\* The token next-auth builds before the jwt callback has ever added a field.
EmptyToken ==
    [accessToken |-> Undefined, refreshToken |-> Undefined,
     accessTokenExpires |-> NoExpiry, user |-> Undefined, error |-> Undefined]

\* JavaScript truthiness of the optional fields.
Truthy(s) == s # Undefined
TruthyNum(n) == n # NoExpiry /\ n # 0

NoCalls == [exchange |-> 0, refresh |-> 0]

\* An invocation: the function entered, whether next-auth passed `account` and
\* `user` (a sign-in), the token argument, Date.now() at entry, calls issued.
IdleInv ==
    [fn |-> "none", signIn |-> FALSE, token |-> EmptyToken, t0 |-> 0, calls |-> NoCalls]

\* response.data of the backend: nothing read from it
NoData == [access |-> Undefined, refresh |-> Undefined]

\* A completed operation: a jwt or refreshAccessToken invocation (argument,
\* backend answer, calls issued, returned token) or a decision of the route
\* guard (token of the request, path, outcome).
NoLast ==
    [fn |-> "none", signIn |-> FALSE, hasToken |-> FALSE, input |-> EmptyToken,
     t0 |-> 0, backend |-> "none", calls |-> NoCalls, output |-> EmptyToken,
     t1 |-> 0, path |-> <<>>, outcome |-> "none", data |-> NoData]

\* No form is on the page.
FormsNotMounted ==
    /\ quizData = [questions |-> <<>>]
    /\ heap = [arrays |-> <<>>, options |-> <<>>]
    /\ answers = <<>>
    /\ history = <<>>

----------------------------------------------------------------------------
(* refreshAccessToken *)

\* if (!token.refreshToken) return { ...token, error: "MissingRefreshTokenError" }
RefreshMissing(token) ==
    [token EXCEPT !.error = MissingRefreshTokenError]

\* Coalesce with a fault: the refresh token of the response is taken even
\* when the response has none
Coalesce_AlwaysNew(refresh, old) == refresh

\* refresh ?? token.refreshToken
Coalesce(refresh, old) == IF refresh = Undefined THEN old ELSE refresh

\* RefreshSuccess with a fault: the previous error is not cleared; the
\* expiry is not renewed
RefreshSuccess_KeepsError(token, access, refresh, t) ==
    [token EXCEPT !.accessToken = access,
                  !.refreshToken = Coalesce(refresh, token.refreshToken),
                  !.accessTokenExpires = t + ACCESS_TOKEN_LIFETIME_MS]

RefreshSuccess_KeepsExpiry(token, access, refresh, t) ==
    [token EXCEPT !.accessToken = access,
                  !.refreshToken = Coalesce(refresh, token.refreshToken),
                  !.error = Undefined]

\* the success return: { ...token, accessToken, refreshToken, accessTokenExpires, error }
RefreshSuccess(token, access, refresh, t) ==
    [token EXCEPT !.accessToken = access,
                  !.refreshToken = Coalesce(refresh, token.refreshToken),
                  !.accessTokenExpires = t + ACCESS_TOKEN_LIFETIME_MS,
                  !.error = Undefined]

\* RefreshFailure with a fault: a field of the failed token is not revoked
RefreshFailure_KeepsAccessToken(token) ==
    [token EXCEPT !.error = RefreshAccessTokenError,
                  !.refreshToken = Undefined,
                  !.accessTokenExpires = 0]

RefreshFailure_KeepsRefreshToken(token) ==
    [token EXCEPT !.error = RefreshAccessTokenError,
                  !.accessToken = Undefined,
                  !.accessTokenExpires = 0]

RefreshFailure_KeepsExpiry(token) ==
    [token EXCEPT !.error = RefreshAccessTokenError,
                  !.accessToken = Undefined,
                  !.refreshToken = Undefined]

\* the catch return
RefreshFailure(token) ==
    [token EXCEPT !.error = RefreshAccessTokenError,
                  !.accessToken = Undefined,
                  !.refreshToken = Undefined,
                  !.accessTokenExpires = 0]

----------------------------------------------------------------------------
(* authOptions.callbacks.jwt *)

\* ExchangeSuccess with a fault: the backend user is not stored
ExchangeSuccess_NoUser(token, access, refresh, backendUser, t) ==
    [token EXCEPT !.accessToken = access,
                  !.refreshToken = refresh,
                  !.accessTokenExpires = t + ACCESS_TOKEN_LIFETIME_MS,
                  !.error = Undefined]

\* the token stored after a successful exchange with the backend
ExchangeSuccess(token, access, refresh, backendUser, t) ==
    [token EXCEPT !.accessToken = access,
                  !.refreshToken = refresh,
                  !.accessTokenExpires = t + ACCESS_TOKEN_LIFETIME_MS,
                  !.user = backendUser,
                  !.error = Undefined]

\* ExchangeFailure with a fault: the user of the previous session survives
ExchangeFailure_KeepsUser(token) ==
    [token EXCEPT !.error = BackendLoginFailed,
                  !.accessToken = Undefined,
                  !.refreshToken = Undefined,
                  !.accessTokenExpires = NoExpiry]

\* the catch branch of the exchange
ExchangeFailure(token) ==
    [token EXCEPT !.error = BackendLoginFailed,
                  !.accessToken = Undefined,
                  !.refreshToken = Undefined,
                  !.accessTokenExpires = NoExpiry,
                  !.user = Undefined]

\* AccessTokenValid with a fault: the comparison is turned around
AccessTokenValid_Flipped(token, t) ==
    TruthyNum(token.accessTokenExpires) /\ t > token.accessTokenExpires

\* customToken.accessTokenExpires && Date.now() < customToken.accessTokenExpires
AccessTokenValid(token, t) ==
    TruthyNum(token.accessTokenExpires) /\ t < token.accessTokenExpires

\* JwtMissingRefresh with a fault: the error tag is not assigned
JwtMissingRefresh_KeepsTag(token) ==
    [token EXCEPT !.accessToken = Undefined,
                  !.accessTokenExpires = NoExpiry,
                  !.user = Undefined]

\* the else branch: no refresh token, cannot refresh
JwtMissingRefresh(token) ==
    [token EXCEPT !.error = MissingRefreshTokenError,
                  !.accessToken = Undefined,
                  !.accessTokenExpires = NoExpiry,
                  !.user = Undefined]

----------------------------------------------------------------------------
(* middleware.ts: the route guard.  A pathname is the sequence of its     *)
(* characters.                                                            *)

P_root == <<"/">>
P_quizzes_slash == <<"/", "q", "u", "i", "z", "z", "e", "s", "/">>
P_quizzes_new == <<"/", "q", "u", "i", "z", "z", "e", "s", "/", "n", "e", "w">>
P_quizzes_new_draft == <<"/", "q", "u", "i", "z", "z", "e", "s", "/", "n", "e", "w", "/", "d", "r", "a", "f", "t">>
P_quizzes_1_edit == <<"/", "q", "u", "i", "z", "z", "e", "s", "/", "1", "/", "e", "d", "i", "t">>
P_quizzes_42_edit == <<"/", "q", "u", "i", "z", "z", "e", "s", "/", "4", "2", "/", "e", "d", "i", "t">>
P_quizzes_x_edit == <<"/", "q", "u", "i", "z", "z", "e", "s", "/", "x", "/", "e", "d", "i", "t">>
P_quizzes_edit == <<"/", "q", "u", "i", "z", "z", "e", "s", "/", "e", "d", "i", "t">>
P_quizzes__edit == <<"/", "q", "u", "i", "z", "z", "e", "s", "/", "/", "e", "d", "i", "t">>
P_quizzes_1_2_edit == <<"/", "q", "u", "i", "z", "z", "e", "s", "/", "1", "/", "2", "/", "e", "d", "i", "t">>
P_quizzes_1_edit_x == <<"/", "q", "u", "i", "z", "z", "e", "s", "/", "1", "/", "e", "d", "i", "t", "/", "x">>
P_attempts == <<"/", "a", "t", "t", "e", "m", "p", "t", "s">>
P_attempts_7 == <<"/", "a", "t", "t", "e", "m", "p", "t", "s", "/", "7">>
P_login == <<"/", "l", "o", "g", "i", "n">>

S_edit == <<"/", "e", "d", "i", "t">>

\* The requests of the model.
Paths ==
    {P_root, P_quizzes_new, P_quizzes_new_draft, P_quizzes_1_edit,
     P_quizzes_42_edit, P_quizzes_x_edit, P_quizzes_edit, P_quizzes__edit,
     P_quizzes_1_2_edit,
     P_quizzes_1_edit_x, P_attempts, P_attempts_7, P_login}

Digits == {"0", "1", "2", "3", "4", "5", "6", "7", "8", "9"}

\* String.prototype.startsWith
StartsWith(s, prefix) ==
    /\ Len(s) >= Len(prefix)
    /\ SubSeq(s, 1, Len(prefix)) = prefix

\* The index after the longest run of digits of s that starts at index i.
RECURSIVE DigitRunEnd(_, _)
DigitRunEnd(s, i) ==
    IF i <= Len(s) /\ s[i] \in Digits THEN DigitRunEnd(s, i + 1) ELSE i

\* MatchesQuizEdit with a fault: both patterns end with $
MatchesQuizEdit_AlwaysAnchored(pathname, anchored) ==
    /\ StartsWith(pathname, P_quizzes_slash)
    /\ LET i == Len(P_quizzes_slash) + 1
           j == DigitRunEnd(pathname, i)
           rest == SubSeq(pathname, j, Len(pathname))
       IN  /\ j > i
           /\ rest = S_edit

\* /^\/quizzes\/\d+\/edit$/ when anchored, /^\/quizzes\/\d+\/edit/ otherwise.
\* The character after \d+ is not a digit, so the longest run is the only match.
MatchesQuizEdit(pathname, anchored) ==
    /\ StartsWith(pathname, P_quizzes_slash)
    /\ LET i == Len(P_quizzes_slash) + 1
           j == DigitRunEnd(pathname, i)
           rest == SubSeq(pathname, j, Len(pathname))
       IN  /\ j > i
           /\ IF anchored THEN rest = S_edit ELSE StartsWith(rest, S_edit)

\* token?.user?.role
UserRole(hasToken, token) == IF hasToken THEN token.user ELSE Undefined

\* the condition of the "Teacher/Admin routes" block
IsTeacherAdminRoute(pathname) ==
    \/ StartsWith(pathname, P_quizzes_new)
    \/ MatchesQuizEdit(pathname, TRUE)

\* Middleware with a fault: || in place of && between the two role tests
Middleware_OrRoles(pathname, hasToken, token) ==
    IF /\ IsTeacherAdminRoute(pathname)
       /\ \/ UserRole(hasToken, token) # "TEACHER"
          \/ UserRole(hasToken, token) # "ADMIN"
    THEN "RedirectToUnauthorized"
    ELSE "Allow"

\* function middleware(req)
Middleware(pathname, hasToken, token) ==
    IF /\ IsTeacherAdminRoute(pathname)
       /\ UserRole(hasToken, token) # "TEACHER"
       /\ UserRole(hasToken, token) # "ADMIN"
    THEN "RedirectToUnauthorized"
    ELSE "Allow"

\* protectedPaths.some(...)
RequiresAuth(pathname) ==
    \/ StartsWith(pathname, P_attempts)
    \/ StartsWith(pathname, P_quizzes_new)
    \/ MatchesQuizEdit(pathname, FALSE)

\* callbacks.authorized
Authorized(pathname, hasToken) ==
    IF RequiresAuth(pathname) THEN hasToken ELSE TRUE

\* config.matcher: "/((?!api|_next/static|_next/image|favicon.ico|login|unauthorized).*)"
MatcherExclusions ==
    {<<"a", "p", "i">>,
     <<"_", "n", "e", "x", "t", "/", "s", "t", "a", "t", "i", "c">>,
     <<"_", "n", "e", "x", "t", "/", "i", "m", "a", "g", "e">>,
     <<"f", "a", "v", "i", "c", "o", "n", ".", "i", "c", "o">>,
     <<"l", "o", "g", "i", "n">>,
     <<"u", "n", "a", "u", "t", "h", "o", "r", "i", "z", "e", "d">>}

MatcherRuns(pathname) ==
    /\ Len(pathname) >= 1
    /\ pathname[1] = "/"
    /\ \A x \in MatcherExclusions : ~StartsWith(Tail(pathname), x)

\* Gate with a fault: the role test runs before the authorized callback
Gate_RoleFirst(pathname, hasToken, token) ==
    IF ~MatcherRuns(pathname) THEN "Allow"
    ELSE IF Middleware(pathname, hasToken, token) # "Allow"
    THEN Middleware(pathname, hasToken, token)
    ELSE IF ~Authorized(pathname, hasToken) THEN "RedirectToLogin"
    ELSE "Allow"

\* export default withAuth(middleware, { callbacks: { authorized } }): a request
\* the matcher selects is sent to the sign-in page when authorized returns
\* false and is handed to middleware otherwise.
Gate(pathname, hasToken, token) ==
    IF ~MatcherRuns(pathname) THEN "Allow"
    ELSE IF ~Authorized(pathname, hasToken) THEN "RedirectToLogin"
    ELSE Middleware(pathname, hasToken, token)

----------------------------------------------------------------------------
(* Actions *)

\* The clock advances by half the lifetime of an access token: a token is
\* still valid one step after it was issued and has expired after two.
TickMs == ACCESS_TOKEN_LIFETIME_MS \div 2

Tick ==
    /\ ticks < MaxTicks
    /\ now' = now + TickMs
    /\ ticks' = ticks + 1
    /\ UNCHANGED <<cookie, session, pc, inv, last>>
    /\ UNCHANGED formVars

\* An invocation returns `out`.  A sign-in and a client-side session read store
\* the returned token in the cookie; a read from a server component
\* (getServerSession) cannot write the cookie and the result is dropped; a
\* direct call of refreshAccessToken only returns its value.
ReturnData(p, frame, out, backend, data) ==
    /\ last' = [NoLast EXCEPT !.fn = frame.fn, !.signIn = frame.signIn,
                              !.hasToken = TRUE, !.input = frame.token,
                              !.t0 = frame.t0, !.backend = backend,
                              !.calls = frame.calls, !.output = out, !.t1 = now,
                              !.data = data]
    /\ pc' = [pc EXCEPT ![p] = "idle"]
    /\ inv' = [inv EXCEPT ![p] = IdleInv]
    /\ \E persist \in BOOLEAN :
          /\ frame.signIn => persist
          /\ frame.fn = "refreshAccessToken" => ~persist
          /\ session' = IF persist THEN out ELSE session
          /\ cookie' = IF persist THEN TRUE ELSE cookie
    /\ UNCHANGED <<now, ticks>>
    /\ UNCHANGED formVars

\* A return that read nothing from a response.
Return(p, frame, out, backend) == ReturnData(p, frame, out, backend, NoData)

\* The invocation suspends at `await axios.post(...)`.
Await(p, frame, endpoint) ==
    /\ pc' = [pc EXCEPT ![p] = endpoint]
    /\ inv' = [inv EXCEPT ![p] =
                 [frame EXCEPT !.calls[endpoint] = frame.calls[endpoint] + 1]]
    /\ UNCHANGED <<now, ticks, cookie, session, last>>
    /\ UNCHANGED formVars

\* RefreshEnter with a fault: the test for a missing refresh token is gone
RefreshEnter_NoGuard(p, frame) ==
    Await(p, frame, "refresh")

\* refreshAccessToken(token), up to the await or the early return.
RefreshEnter(p, frame) ==
    IF ~Truthy(frame.token.refreshToken)
    THEN Return(p, frame, RefreshMissing(frame.token), "none")
    ELSE Await(p, frame, "refresh")

\* jwt({ token, user, account }), up to the await or the return.
JwtEnter(p, frame) ==
    IF frame.signIn
    THEN Await(p, frame, "exchange")
    ELSE IF AccessTokenValid(frame.token, frame.t0)
    THEN Return(p, frame, frame.token, "none")
    ELSE IF Truthy(frame.token.refreshToken)
    THEN RefreshEnter(p, frame)
    ELSE Return(p, frame, JwtMissingRefresh(frame.token), "none")

\* Google sign-in: next-auth calls jwt with `account` and `user`.
SignIn(p) ==
    /\ pc[p] = "idle"
    /\ JwtEnter(p, [fn |-> "jwt", signIn |-> TRUE, token |-> session,
                    t0 |-> now, calls |-> NoCalls])

\* ReadSession with a guard the code does not have: a read waits while
\* another request of the session awaits its refresh
ReadSession_SingleFlight(p) ==
    /\ pc[p] = "idle"
    /\ cookie
    /\ \A q \in Procs \ {p} : pc[q] # "refresh"
    /\ JwtEnter(p, [fn |-> "jwt", signIn |-> FALSE, token |-> session,
                    t0 |-> now, calls |-> NoCalls])

\* A session read (useSession, getServerSession): jwt without `account`.
ReadSession(p) ==
    /\ pc[p] = "idle"
    /\ cookie
    /\ JwtEnter(p, [fn |-> "jwt", signIn |-> FALSE, token |-> session,
                    t0 |-> now, calls |-> NoCalls])

\* The backend answers POST /auth/google/callback/.
ExchangeAccepted(p) ==
    /\ pc[p] = "exchange"
    /\ \E access \in AccessTokens, refresh \in RefreshTokens, backendUser \in Roles :
          ReturnData(p, inv[p],
                     ExchangeSuccess(inv[p].token, access, refresh, backendUser, now),
                     "accepted", [access |-> access, refresh |-> refresh])

ExchangeRejected(p) ==
    /\ pc[p] = "exchange"
    /\ Return(p, inv[p], ExchangeFailure(inv[p].token), "rejected")

\* The backend answers POST /auth/token/refresh/.
RefreshAccepted(p) ==
    /\ pc[p] = "refresh"
    /\ \E access \in AccessTokens, refresh \in RefreshTokens \cup {Undefined} :
          ReturnData(p, inv[p],
                     RefreshSuccess(inv[p].token, access, refresh, now),
                     "accepted", [access |-> access, refresh |-> refresh])

\* RefreshRejected with a fault: a rejected refresh is tried once more
RefreshRejected_Retry(p) ==
    /\ pc[p] = "refresh"
    /\ IF inv[p].calls.refresh < 2
       THEN Await(p, inv[p], "refresh")
       ELSE Return(p, inv[p], RefreshFailure(inv[p].token), "rejected")

RefreshRejected(p) ==
    /\ pc[p] = "refresh"
    /\ Return(p, inv[p], RefreshFailure(inv[p].token), "rejected")

\* signOut(): the cookie is removed.
SignOut ==
    /\ cookie
    /\ cookie' = FALSE
    /\ session' = EmptyToken
    /\ UNCHANGED <<now, ticks, pc, inv, last>>
    /\ UNCHANGED formVars

\* A page request passes the route guard, which reads the cookie's token
\* (getToken) without running the jwt callback.
Request ==
    \E pathname \in Paths :
        /\ last' = [NoLast EXCEPT !.fn = "middleware", !.hasToken = cookie,
                                  !.input = session, !.t0 = now, !.t1 = now,
                                  !.path = pathname,
                                  !.outcome = Gate(pathname, cookie, session)]
        /\ UNCHANGED <<now, ticks, cookie, session, pc, inv>>
        /\ UNCHANGED formVars

----------------------------------------------------------------------------
(* Specification of the running application *)

Init ==
    /\ FormsNotMounted
    /\ now = 0
    /\ ticks = 0
    /\ cookie = FALSE
    /\ session = EmptyToken
    /\ pc = [p \in Procs |-> "idle"]
    /\ inv = [p \in Procs |-> IdleInv]
    /\ last = NoLast

\* Requests of one session are taken one after the other here; the actions
\* are written per request so that they can also be interleaved.
Next ==
    \/ Tick
    \/ SignOut
    \/ Request
    \/ \E p \in {"req1"} :
          \/ SignIn(p)
          \/ ReadSession(p)
          \/ ExchangeAccepted(p)
          \/ ExchangeRejected(p)
          \/ RefreshAccepted(p)
          \/ RefreshRejected(p)

Spec == Init /\ [][Next]_vars

----------------------------------------------------------------------------
(* Specification of the two functions on arbitrary arguments: the token    *)
(* argument is any CustomJWT, jwt is entered with and without `account`,   *)
(* and refreshAccessToken is also called on its own.                       *)

\* refreshAccessToken(token) called directly on the token at hand.
CallRefresh(p) ==
    /\ pc[p] = "idle"
    /\ RefreshEnter(p, [fn |-> "refreshAccessToken", signIn |-> FALSE,
                        token |-> session, t0 |-> now, calls |-> NoCalls])

ExpiryInputs ==
    {NoExpiry, 0, TickMs, ACCESS_TOKEN_LIFETIME_MS, 2 * ACCESS_TOKEN_LIFETIME_MS}

TokenInputs ==
    [accessToken : {Undefined, "a1"}, refreshToken : {Undefined, "r1"},
     accessTokenExpires : ExpiryInputs, user : {Undefined, "STUDENT"},
     error : {Undefined} \cup ErrorTags]

InitUnit ==
    /\ FormsNotMounted
    /\ now \in {0, ACCESS_TOKEN_LIFETIME_MS}
    /\ ticks = 0
    /\ cookie = TRUE
    /\ session \in TokenInputs
    /\ pc = [p \in Procs |-> "idle"]
    /\ inv = [p \in Procs |-> IdleInv]
    /\ last = NoLast

NextUnit ==
    \E p \in {"req1"} :
        \/ CallRefresh(p)
        \/ SignIn(p)
        \/ ReadSession(p)
        \/ ExchangeAccepted(p)
        \/ ExchangeRejected(p)
        \/ RefreshAccepted(p)
        \/ RefreshRejected(p)

SpecUnit == InitUnit /\ [][NextUnit]_vars

----------------------------------------------------------------------------
(* Specification of concurrent session reads: two requests of one signed-in *)
(* session run the jwt callback at the same time.                           *)

\* the session right after a sign-in at time 0
SignedInSessions ==
    {ExchangeSuccess(EmptyToken, access, refresh, "STUDENT", 0) :
        access \in AccessTokens, refresh \in RefreshTokens}

InitConc ==
    /\ FormsNotMounted
    /\ now = 0
    /\ ticks = 0
    /\ cookie = TRUE
    /\ session \in SignedInSessions
    /\ pc = [p \in Procs |-> "idle"]
    /\ inv = [p \in Procs |-> IdleInv]
    /\ last = NoLast

NextConc ==
    \/ Tick
    \/ \E p \in Procs :
          \/ ReadSession(p)
          \/ RefreshAccepted(p)
          \/ RefreshRejected(p)

SpecConc == InitConc /\ [][NextConc]_vars

----------------------------------------------------------------------------
(* Specification of concurrent session reads against a backend that does   *)
(* not invalidate a refresh token it has already exchanged: every refresh  *)
(* call is accepted.  The session starts with an access token that has     *)
(* just expired.                                                           *)

InitAccepting ==
    /\ FormsNotMounted
    /\ now = ACCESS_TOKEN_LIFETIME_MS
    /\ ticks = 0
    /\ cookie = TRUE
    /\ session \in SignedInSessions
    /\ pc = [p \in Procs |-> "idle"]
    /\ inv = [p \in Procs |-> IdleInv]
    /\ last = NoLast

NextAccepting ==
    \/ Tick
    \/ \E p \in Procs :
          \/ ReadSession(p)
          \/ RefreshAccepted(p)

SpecAccepting == InitAccepting /\ [][NextAccepting]_vars

----------------------------------------------------------------------------
(* lib/api.ts: fetchApi.  A header value and an error message are tuples   *)
(* of their parts; <<>> is a header that is not set.                       *)

\* !accessToken: null, undefined and the empty string are falsy
TruthyStr(str) == str # Undefined /\ str # ""

\* `Bearer ${accessToken}`
Bearer(accessToken) == <<"Bearer", accessToken>>

\* headers with a fault: the caller's headers are spread last
MergeHeaders_CallerLast(headers, accessToken) ==
    IF headers.Authorization # <<>> THEN headers
    ELSE [headers EXCEPT !.Authorization = Bearer(accessToken)]

\* headers: { ...headers, Authorization: `Bearer ${accessToken}` }
MergeHeaders(headers, accessToken) ==
    [headers EXCEPT !.Authorization = Bearer(accessToken)]

\* the arguments of the calls of the model
ApiTokens == {Undefined, "", "a1", "a2"}
ApiEndpoints == {"/attempts/", "/quizzes/1/"}
ApiMethods == {"GET", "DELETE"}
CallerHeaders ==
    [Authorization : {<<>>, <<"Bearer", "stale">>, <<"Basic", "dXNlcg==">>},
     XRequestId : {<<>>, <<"42">>}]

\* what the backend can answer with an error status
ApiStatuses == {401, 404, 500}
ApiBodyMessages == {Undefined, "", "Not found."}

NoRequest == [url |-> "", method |-> "", headers |-> [Authorization |-> <<>>, XRequestId |-> <<>>]]

\* A call of fetchApi: the helper that made it ("none" for a direct call), its
\* arguments, the requests sent, the backend's answer, what fetchApi returned
\* or threw (result) and what the helper handed to its page (returned).
NoApiCall ==
    [fn |-> "none", caller |-> "none",
     args |-> [endpoint |-> "", method |-> "", accessToken |-> Undefined,
               headers |-> NoRequest.headers],
     requests |-> 0, request |-> NoRequest, backend |-> "none",
     result |-> [kind |-> "none", data |-> "", message |-> <<>>],
     returned |-> [kind |-> "none", data |-> "", message |-> <<>>]]

Thrown(message) == [kind |-> "error", data |-> "", message |-> message]
Resolved(data) == [kind |-> "ok", data |-> data, message |-> <<>>]

\* axiosError.response.data?.message || `API request failed with status ${status}`
ResponseErrorMessage(bodyMessage, status) ==
    IF TruthyStr(bodyMessage) THEN <<bodyMessage>>
    ELSE <<"API request failed with status ", status>>

\* getAttempts and getQuizzes: try { return await fetchApi(...) }
\* catch (error) { console.error(...); return [] }
HelperReturn(caller, result) ==
    IF caller \in {"getAttempts", "getQuizzes"} /\ result.kind = "error"
    THEN Resolved("[]")
    ELSE result

\* fetchApi returns or throws, to the helper that called it when there is one.
ApiReturn(p, frame, result) ==
    /\ last' = [frame EXCEPT !.result = result,
                             !.returned = HelperReturn(frame.caller, result)]
    /\ pc' = [pc EXCEPT ![p] = "idle"]
    /\ inv' = [inv EXCEPT ![p] = IdleInv]
    /\ UNCHANGED <<now, ticks, cookie, session>>
    /\ UNCHANGED formVars

\* The body of fetchApi, up to the throw or to `await apiClient(...)`.
FetchApiBody(p, caller, endpoint, method, accessToken, headers) ==
    LET frame == [NoApiCall EXCEPT
                     !.fn = "fetchApi", !.caller = caller,
                     !.args = [endpoint |-> endpoint, method |-> method,
                               accessToken |-> accessToken, headers |-> headers]]
    IN  IF ~TruthyStr(accessToken)
        THEN ApiReturn(p, frame, Thrown(<<"Authentication token is missing.">>))
        ELSE /\ pc' = [pc EXCEPT ![p] = "api"]
             /\ inv' = [inv EXCEPT ![p] =
                          [frame EXCEPT
                              !.requests = 1,
                              !.request = [url |-> endpoint, method |-> method,
                                           headers |-> MergeHeaders(headers, accessToken)]]]
             /\ UNCHANGED <<now, ticks, cookie, session, last>>
             /\ UNCHANGED formVars

\* fetchApi(endpoint, options) called by a component.
FetchApi(p) ==
    /\ pc[p] = "idle"
    /\ \E endpoint \in ApiEndpoints, method \in ApiMethods,
          accessToken \in ApiTokens, headers \in CallerHeaders :
          FetchApiBody(p, "none", endpoint, method, accessToken, headers)

\* A helper returns [] without calling fetchApi: if (!accessToken) return [].
HelperReturnsEmpty(p, caller, accessToken) ==
    /\ last' = [NoApiCall EXCEPT !.fn = caller, !.caller = caller,
                                 !.args.accessToken = accessToken,
                                 !.returned = Resolved("[]")]
    /\ UNCHANGED <<now, ticks, cookie, session, pc, inv>>
    /\ UNCHANGED formVars

\* app/attempts/page.tsx: getAttempts(accessToken)
GetAttempts(p) ==
    /\ pc[p] = "idle"
    /\ \E accessToken \in ApiTokens :
          IF ~TruthyStr(accessToken)
          THEN HelperReturnsEmpty(p, "getAttempts", accessToken)
          ELSE FetchApiBody(p, "getAttempts", "/attempts/", "GET", accessToken,
                            NoRequest.headers)

\* app/quizzes/page.tsx: getQuizzes(accessToken)
GetQuizzes(p) ==
    /\ pc[p] = "idle"
    /\ \E accessToken \in ApiTokens :
          IF ~TruthyStr(accessToken)
          THEN HelperReturnsEmpty(p, "getQuizzes", accessToken)
          ELSE FetchApiBody(p, "getQuizzes", "/quizzes/", "GET", accessToken,
                            NoRequest.headers)

\* The backend answers with a 2xx status: return response.data.
ApiSucceeds(p) ==
    /\ pc[p] = "api"
    /\ ApiReturn(p, [inv[p] EXCEPT !.backend = "success"], Resolved("response.data"))

\* The backend answers with an error status.
ApiErrorResponse(p) ==
    /\ pc[p] = "api"
    /\ \E status \in ApiStatuses, bodyMessage \in ApiBodyMessages :
          ApiReturn(p, [inv[p] EXCEPT !.backend = "error response"],
                    Thrown(ResponseErrorMessage(bodyMessage, status)))

\* The request was sent and no response arrived.
ApiNoResponse(p) ==
    /\ pc[p] = "api"
    /\ ApiReturn(p, [inv[p] EXCEPT !.backend = "no response"],
                 Thrown(<<"API request made but no response received.">>))

\* The request could not be set up.
ApiSetupError(p) ==
    /\ pc[p] = "api"
    /\ ApiReturn(p, [inv[p] EXCEPT !.backend = "setup error"],
                 Thrown(<<"API request setup error: ", "axiosError.message">>))

InitApi ==
    /\ FormsNotMounted
    /\ now = 0
    /\ ticks = 0
    /\ cookie = FALSE
    /\ session = EmptyToken
    /\ pc = [p \in Procs |-> "idle"]
    /\ inv = [p \in Procs |-> IdleInv]
    /\ last = NoApiCall

NextApi ==
    \E p \in {"req1"} :
        \/ FetchApi(p)
        \/ GetAttempts(p)
        \/ GetQuizzes(p)
        \/ ApiSucceeds(p)
        \/ ApiErrorResponse(p)
        \/ ApiNoResponse(p)
        \/ ApiSetupError(p)

SpecApi == InitApi /\ [][NextApi]_vars

----------------------------------------------------------------------------
(* components/QuizManageForm.  The question objects are held by the list   *)
(* quizData.questions alone and are records here.  Arrays of answer options *)
(* and answer option objects are JavaScript objects that several questions *)
(* can reference: heap.arrays maps an array reference to the list of the   *)
(* references of its options, heap.options an option reference to the      *)
(* option object.  Indices count from 1.                                   *)

MaxQuestions == 2
MaxOptions == 2

QuestionTypes == {"SINGLE_MCQ", "MULTI_MCQ", "TRUE_FALSE"}

\* const initialAnswerOption = { text: "", is_correct: false }
InitialAnswerOption == [text |-> "", is_correct |-> FALSE]

\* The reference of the array initialQuestion.answer_options, created once
\* when the module is loaded.
InitialQuestionOptions == 1

\* const initialQuestion: spreading it copies the reference of answer_options.
InitialQuestion ==
    [question_type |-> "SINGLE_MCQ", correct_answer_bool |-> "null",
     answer_options |-> InitialQuestionOptions]

\* const initialQuiz = { ..., questions: [{ ...initialQuestion }] }
InitialQuiz == [questions |-> <<InitialQuestion>>]

\* The heap when the module is loaded: the array of initialQuestion with its
\* one option { ...initialAnswerOption }.
InitialHeap ==
    [arrays |-> <<(<<1>>)>>, options |-> <<InitialAnswerOption>>]

\* new object: a reference not in use
FreshRef(objects) == Len(objects) + 1

\* The elements of a list.
Range(list) == {list[i] : i \in DOMAIN list}

\* The list without the repetitions of its elements, in order of first
\* occurrence.
RECURSIVE Distinct(_)
Distinct(list) ==
    IF list = <<>> THEN <<>>
    ELSE LET front == Distinct(SubSeq(list, 1, Len(list) - 1))
             x == list[Len(list)]
         IN  IF x \in Range(front) THEN front ELSE Append(front, x)

\* The concatenation of the lists of a list.
RECURSIVE Flatten(_)
Flatten(lists) ==
    IF lists = <<>> THEN <<>> ELSE Head(lists) \o Flatten(Tail(lists))

\* The position of an element in a list without repetitions.
IndexOf(list, x) == CHOOSE i \in DOMAIN list : list[i] = x

\* What the form and the module constants can still reach, the rest being
\* garbage.  A reference has no meaning but identity: the reachable objects
\* are numbered in the order in which they are reached from
\* initialQuestion.answer_options and then from the questions of the form.
Collect(questions, h) ==
    LET liveArrays ==
            Distinct(<<InitialQuestionOptions>>
                     \o [i \in DOMAIN questions |-> questions[i].answer_options])
        liveOptions ==
            Distinct(Flatten([k \in DOMAIN liveArrays |-> h.arrays[liveArrays[k]]]))
    IN  [questions |->
            [i \in DOMAIN questions |->
                [questions[i] EXCEPT
                    !.answer_options = IndexOf(liveArrays, questions[i].answer_options)]],
         arrays |->
            [k \in DOMAIN liveArrays |->
                [j \in DOMAIN h.arrays[liveArrays[k]] |->
                    IndexOf(liveOptions, h.arrays[liveArrays[k]][j])]],
         options |-> [k \in DOMAIN liveOptions |-> h.options[liveOptions[k]]]]

\* list.filter((_, i) => i !== index)
RemoveAt(list, index) ==
    [i \in 1..(Len(list) - (IF index \in DOMAIN list THEN 1 ELSE 0)) |->
        IF i < index THEN list[i] ELSE list[i + 1]]

\* question.answer_options as the page shows them: the option objects
OptionsOf(questions, h, qIndex) ==
    LET array == h.arrays[questions[qIndex].answer_options]
    IN  [k \in DOMAIN array |-> h.options[array[k]]]

\* A handler that has run: its name, the question it was called for (0 when
\* it has none) and whether it refused with an alert.
NoFormCall == [fn |-> "none", qIndex |-> 0, alert |-> FALSE]

\* setQuizData((prev) => ({ ...prev, questions: newQuestions })) and the record
\* of the handler that ran.
SetQuestions(call, questions, h) ==
    /\ LET live == Collect(questions, h)
       IN  /\ quizData' = [quizData EXCEPT !.questions = live.questions]
           /\ heap' = [arrays |-> live.arrays, options |-> live.options]
    /\ last' = call
    /\ UNCHANGED authVars
    /\ UNCHANGED <<answers, history>>

\* handleQuestionChange(index, "question_type", value)
HandleQuestionTypeChange(index, value) ==
    LET question == quizData.questions[index]
        call == [NoFormCall EXCEPT !.fn = "handleQuestionChange", !.qIndex = index]
        array == FreshRef(heap.arrays)
        option == FreshRef(heap.options)
    IN  IF value = "TRUE_FALSE"
        THEN SetQuestions(call,
                 [quizData.questions EXCEPT ![index] =
                     [question_type |-> value,
                      correct_answer_bool |->
                          IF question.correct_answer_bool = "null" THEN "false"
                          ELSE question.correct_answer_bool,
                      answer_options |-> array]],
                 [heap EXCEPT !.arrays = Append(@, <<>>)])
        ELSE IF Len(heap.arrays[question.answer_options]) = 0
        THEN SetQuestions(call,
                 [quizData.questions EXCEPT ![index] =
                     [question_type |-> value, correct_answer_bool |-> "null",
                      answer_options |-> array]],
                 [arrays |-> Append(heap.arrays, <<option>>),
                  options |-> Append(heap.options, InitialAnswerOption)])
        ELSE SetQuestions(call,
                 [quizData.questions EXCEPT ![index] =
                     [question EXCEPT !.question_type = value,
                                      !.correct_answer_bool = "null"]],
                 heap)

\* handleQuestionChange(index, field, value) for the question type and for
\* the answer of a true/false question
HandleQuestionChange(index, field, value) ==
    IF field = "question_type"
    THEN HandleQuestionTypeChange(index, value)
    ELSE SetQuestions([NoFormCall EXCEPT !.fn = "handleQuestionChange",
                                         !.qIndex = index],
                      [quizData.questions EXCEPT ![index].correct_answer_bool = value],
                      heap)

\* addQuestion
AddQuestion ==
    /\ Len(quizData.questions) < MaxQuestions
    /\ SetQuestions([NoFormCall EXCEPT !.fn = "addQuestion"],
                    Append(quizData.questions, InitialQuestion), heap)

\* removeQuestion(index)
RemoveQuestion(index) ==
    IF Len(quizData.questions) <= 1
    THEN SetQuestions([NoFormCall EXCEPT !.fn = "removeQuestion", !.qIndex = index,
                                         !.alert = TRUE],
                      quizData.questions, heap)
    ELSE SetQuestions([NoFormCall EXCEPT !.fn = "removeQuestion", !.qIndex = index],
                      RemoveAt(quizData.questions, index), heap)

\* handleAnswerOptionChange(qIndex, aIndex, field, value): the copy newOptions
\* holds the same option objects, which are assigned to in place.
HandleAnswerOptionChange(qIndex, aIndex, field, value) ==
    LET question == quizData.questions[qIndex]
        newOptions == heap.arrays[question.answer_options]
        array == FreshRef(heap.arrays)
        assigned == [heap.options EXCEPT ![newOptions[aIndex]][field] = value]
        others == {newOptions[i] : i \in DOMAIN newOptions \ {aIndex}}
        options ==
            IF field = "is_correct" /\ value = TRUE
               /\ question.question_type = "SINGLE_MCQ"
            THEN [o \in DOMAIN assigned |->
                     IF o \in others THEN [assigned[o] EXCEPT !.is_correct = FALSE]
                     ELSE assigned[o]]
            ELSE assigned
    IN  SetQuestions([NoFormCall EXCEPT !.fn = "handleAnswerOptionChange",
                                        !.qIndex = qIndex],
                     [quizData.questions EXCEPT ![qIndex].answer_options = array],
                     [arrays |-> Append(heap.arrays, newOptions),
                      options |-> options])

\* addAnswerOption(qIndex): push on the array the question references
AddAnswerOption(qIndex) ==
    LET array == quizData.questions[qIndex].answer_options
        option == FreshRef(heap.options)
    IN  /\ Len(heap.arrays[array]) < MaxOptions
        /\ SetQuestions([NoFormCall EXCEPT !.fn = "addAnswerOption", !.qIndex = qIndex],
                        quizData.questions,
                        [arrays |-> [heap.arrays EXCEPT ![array] = Append(@, option)],
                         options |-> Append(heap.options, InitialAnswerOption)])

\* removeAnswerOption with a fault: the last option can be removed
RemoveAnswerOption_NoGuard(qIndex, aIndex) ==
    LET question == quizData.questions[qIndex]
        array == FreshRef(heap.arrays)
    IN  SetQuestions([NoFormCall EXCEPT !.fn = "removeAnswerOption",
                                        !.qIndex = qIndex],
                     [quizData.questions EXCEPT ![qIndex].answer_options = array],
                     [heap EXCEPT !.arrays =
                         Append(@, RemoveAt(heap.arrays[question.answer_options], aIndex))])

\* removeAnswerOption(qIndex, aIndex)
RemoveAnswerOption(qIndex, aIndex) ==
    LET question == quizData.questions[qIndex]
        array == FreshRef(heap.arrays)
    IN  IF /\ Len(heap.arrays[question.answer_options]) <= 1
           /\ question.question_type # "TRUE_FALSE"
        THEN SetQuestions([NoFormCall EXCEPT !.fn = "removeAnswerOption",
                                             !.qIndex = qIndex, !.alert = TRUE],
                          quizData.questions, heap)
        ELSE SetQuestions([NoFormCall EXCEPT !.fn = "removeAnswerOption",
                                             !.qIndex = qIndex],
                          [quizData.questions EXCEPT ![qIndex].answer_options = array],
                          [heap EXCEPT !.arrays =
                              Append(@, RemoveAt(heap.arrays[question.answer_options],
                                                 aIndex))])

\* The form in create mode: useState(initialQuiz).
InitManage ==
    /\ now = 0
    /\ ticks = 0
    /\ cookie = FALSE
    /\ session = EmptyToken
    /\ pc = [p \in Procs |-> "idle"]
    /\ inv = [p \in Procs |-> IdleInv]
    /\ last = NoFormCall
    /\ quizData = InitialQuiz
    /\ heap = InitialHeap
    /\ answers = <<>>
    /\ history = <<>>

\* The user works on a question or on an option of the form.  The radio
\* buttons of correct_answer_bool are shown for a TRUE_FALSE question only;
\* of the fields of an option, is_correct is the one that is edited here.
NextManage ==
    \/ AddQuestion
    \/ \E qIndex \in DOMAIN quizData.questions :
          \/ \E value \in QuestionTypes :
                HandleQuestionChange(qIndex, "question_type", value)
          \/ \E value \in {"true", "false"} :
                /\ quizData.questions[qIndex].question_type = "TRUE_FALSE"
                /\ HandleQuestionChange(qIndex, "correct_answer_bool", value)
          \/ RemoveQuestion(qIndex)
          \/ AddAnswerOption(qIndex)
          \/ \E aIndex \in DOMAIN heap.arrays[quizData.questions[qIndex].answer_options] :
                \/ \E value \in BOOLEAN :
                      HandleAnswerOptionChange(qIndex, aIndex, "is_correct", value)
                \/ RemoveAnswerOption(qIndex, aIndex)

SpecManage == InitManage /\ [][NextManage]_vars

----------------------------------------------------------------------------
(* components/QuizAttemptForm.  answers maps the id of a question that has *)
(* an entry to its { selectedOptionIds, selectedAnswerBool }.  A boolean    *)
(* answer is "true" or "false", Undefined when it is not set; a JSON list   *)
(* that can be null is a record with the field null.                       *)

\* The quiz prop: a question of each type; the ids are not in list order.
AttemptQuiz ==
    [id |-> 7,
     questions |->
        <<[id |-> 30, question_type |-> "MULTI_MCQ", answer_options |-> <<301, 302, 303>>],
          [id |-> 10, question_type |-> "SINGLE_MCQ", answer_options |-> <<101, 102>>],
          [id |-> 20, question_type |-> "TRUE_FALSE", answer_options |-> <<>>]>>]

QuestionIds == {AttemptQuiz.questions[i].id : i \in DOMAIN AttemptQuiz.questions}
OptionIds == UNION {Range(AttemptQuiz.questions[i].answer_options) :
                       i \in DOMAIN AttemptQuiz.questions}

JsonNull == [null |-> TRUE, items |-> <<>>]
JsonList(items) == [null |-> FALSE, items |-> items]

\* prev[questionId] || {}, with the fields as the updater reads them
CurrentAnswer(prev, questionId) ==
    IF questionId \in DOMAIN prev THEN prev[questionId]
    ELSE [selectedOptionIds |-> <<>>, selectedAnswerBool |-> Undefined]

\* The updater with a fault: a checkbox click always selects
NextAnswers_AlwaysPush(prev, questionId, questionType, value, isMultiChoice) ==
    LET current == CurrentAnswer(prev, questionId)
        entry ==
            IF questionType = "TRUE_FALSE"
            THEN [selectedOptionIds |-> <<>>, selectedAnswerBool |-> value]
            ELSE IF isMultiChoice
            THEN [selectedOptionIds |-> Append(current.selectedOptionIds, value),
                  selectedAnswerBool |-> Undefined]
            ELSE [selectedOptionIds |-> <<value>>, selectedAnswerBool |-> Undefined]
    IN  (questionId :> entry) @@ prev

\* The updater handleAnswerChange passes to setAnswers.
NextAnswers(prev, questionId, questionType, value, isMultiChoice) ==
    LET current == CurrentAnswer(prev, questionId)
        ids == current.selectedOptionIds
        entry ==
            IF questionType = "TRUE_FALSE"
            THEN [selectedOptionIds |-> <<>>, selectedAnswerBool |-> value]
            ELSE IF isMultiChoice
            THEN [selectedOptionIds |->
                      IF value \in Range(ids)
                      THEN RemoveAt(ids, CHOOSE i \in DOMAIN ids :
                                            /\ ids[i] = value
                                            /\ \A j \in 1..(i - 1) : ids[j] # value)
                      ELSE Append(ids, value),
                  selectedAnswerBool |-> Undefined]
            ELSE [selectedOptionIds |-> <<value>>, selectedAnswerBool |-> Undefined]
    IN  (questionId :> entry) @@ prev

\* A handler of the attempt form that has run.
NoAttemptCall ==
    [fn |-> "none", questionId |-> 0, option |-> 0, error |-> "", sent |-> FALSE,
     payload |-> [quiz_id |-> 0, answers |-> <<>>]]

\* What the user has done: per option of a MULTI_MCQ question the parity of
\* the number of clicks on it, per SINGLE_MCQ question the option clicked
\* last (0 when none was).
NoClicks == [parity |-> [o \in OptionIds |-> 0], latest |-> [q \in QuestionIds |-> 0]]

Click(questionType, questionId, value) ==
    IF questionType = "MULTI_MCQ"
    THEN [history EXCEPT !.parity[value] = 1 - @]
    ELSE IF questionType = "SINGLE_MCQ"
    THEN [history EXCEPT !.latest[questionId] = value]
    ELSE history

\* handleAnswerChange(questionId, questionType, value, isMultiChoice)
HandleAnswerChange(questionId, questionType, value, isMultiChoice) ==
    /\ answers' = NextAnswers(answers, questionId, questionType, value, isMultiChoice)
    /\ history' = Click(questionType, questionId, value)
    /\ last' = [NoAttemptCall EXCEPT
                   !.fn = "handleAnswerChange", !.questionId = questionId,
                   !.option = IF questionType = "TRUE_FALSE" THEN 0 ELSE value]
    /\ UNCHANGED authVars
    /\ UNCHANGED <<quizData, heap>>

\* The ids of a set in ascending order: Object.entries lists integer keys so.
RECURSIVE Ascending(_)
Ascending(ids) ==
    IF ids = {} THEN <<>>
    ELSE LET least == CHOOSE x \in ids : \A y \in ids : x <= y
         IN  <<least>> \o Ascending(ids \ {least})

DigitChars == <<"0", "1", "2", "3", "4", "5", "6", "7", "8", "9">>

\* The property key of a question id: its decimal digits.
RECURSIVE KeyOf(_)
KeyOf(n) ==
    IF n < 10 THEN <<DigitChars[n + 1]>>
    ELSE Append(KeyOf(n \div 10), DigitChars[(n % 10) + 1])

\* parseInt(qId, 10) of a string of decimal digits
RECURSIVE ParseInt(_)
ParseInt(digits) ==
    IF digits = <<>> THEN 0
    ELSE 10 * ParseInt(SubSeq(digits, 1, Len(digits) - 1))
         + (CHOOSE d \in 0..9 : DigitChars[d + 1] = digits[Len(digits)])

\* one element of Object.entries(answers).map(([qId, ans]) => ...): qId is
\* the property key
SubmittedAnswer(qId, ans) ==
    [question_id |-> ParseInt(qId),
     selected_option_ids |->
         IF Len(ans.selectedOptionIds) > 0 THEN JsonList(ans.selectedOptionIds)
         ELSE JsonNull,
     selected_answer_bool |->
         IF ans.selectedAnswerBool # Undefined THEN ans.selectedAnswerBool ELSE "null"]

\* the entry pushed for a question without answer
UnansweredAnswer(qId) ==
    [question_id |-> qId, selected_option_ids |-> JsonNull, selected_answer_bool |-> "null"]

\* submissionAnswers with a fault: the questions without answer are left out
SubmissionAnswers_AnsweredOnly(ans) ==
    LET answered == Ascending(DOMAIN ans)
    IN  [k \in DOMAIN answered |->
            SubmittedAnswer(KeyOf(answered[k]), ans[answered[k]])]

\* submissionAnswers: the entries of answers, then one entry for every
\* question of the quiz that has none
SubmissionAnswers(ans) ==
    LET answered == Ascending(DOMAIN ans)
        unanswered == SelectSeq([i \in DOMAIN AttemptQuiz.questions |->
                                    AttemptQuiz.questions[i].id],
                                LAMBDA qId : qId \notin DOMAIN ans)
    IN  [k \in DOMAIN answered |->
            SubmittedAnswer(KeyOf(answered[k]), ans[answered[k]])]
        \o [k \in DOMAIN unanswered |-> UnansweredAnswer(unanswered[k])]

\* handleSubmit: without access token nothing is sent; otherwise the payload
\* is posted and the backend accepts it or the call fails.
HandleSubmit ==
    /\ \E accessToken \in {Undefined, "a1"}, accepted \in BOOLEAN :
          last' = IF ~TruthyStr(accessToken)
                  THEN [NoAttemptCall EXCEPT
                           !.fn = "handleSubmit",
                           !.error = "Authentication error. Please log in again."]
                  ELSE [NoAttemptCall EXCEPT
                           !.fn = "handleSubmit", !.sent = TRUE,
                           !.payload = [quiz_id |-> AttemptQuiz.id,
                                        answers |-> SubmissionAnswers(answers)],
                           !.error = IF accepted THEN "" ELSE "err.message"]
    /\ UNCHANGED authVars
    /\ UNCHANGED formVars

InitAttempt ==
    /\ now = 0
    /\ ticks = 0
    /\ cookie = FALSE
    /\ session = EmptyToken
    /\ pc = [p \in Procs |-> "idle"]
    /\ inv = [p \in Procs |-> IdleInv]
    /\ last = NoAttemptCall
    /\ quizData = [questions |-> <<>>]
    /\ heap = [arrays |-> <<>>, options |-> <<>>]
    /\ answers = <<>>
    /\ history = NoClicks

\* The inputs the form renders: two radio buttons for a TRUE_FALSE question,
\* one radio button or checkbox per option otherwise.
NextAttempt ==
    \/ \E i \in DOMAIN AttemptQuiz.questions :
          LET question == AttemptQuiz.questions[i]
          IN  \/ /\ question.question_type = "TRUE_FALSE"
                 /\ \E value \in {"true", "false"} :
                       HandleAnswerChange(question.id, question.question_type,
                                          value, FALSE)
              \/ /\ question.question_type # "TRUE_FALSE"
                 /\ \E option \in Range(question.answer_options) :
                       HandleAnswerChange(question.id, question.question_type, option,
                                          question.question_type = "MULTI_MCQ")
    \/ HandleSubmit

SpecAttempt == InitAttempt /\ [][NextAttempt]_vars

----------------------------------------------------------------------------
(* Properties *)

IsJwt == last.fn = "jwt"
IsRead == last.fn = "jwt" /\ ~last.signIn
IsRefreshCall == last.fn \in {"jwt", "refreshAccessToken"} /\ last.calls.refresh > 0

\* the argument's accessTokenExpires lies in the future at entry
ExpiryInFuture ==
    /\ last.input.accessTokenExpires # NoExpiry
    /\ last.t0 < last.input.accessTokenExpires

\* C1: a record returned by the jwt callback that carries an error tag carries
\* no access token, after any sequence of sign-ins, refreshes and reads.
C1_ErrorRevokesAccessToken ==
    IsJwt /\ last.output.error # Undefined => last.output.accessToken = Undefined

C1_Witness ==
    /\ IsRead
    /\ last.input.accessToken # Undefined
    /\ last.backend = "rejected"
    /\ last.output.error = RefreshAccessTokenError

\* C2: jwt entered without `account` on a token whose accessTokenExpires is in
\* the future issues no backend call and returns the token as it was given.
C2_ValidTokenUntouched ==
    IsRead /\ ExpiryInFuture =>
        /\ last.calls = NoCalls
        /\ last.backend = "none"
        /\ last.output = last.input

C2_Witness ==
    /\ IsRead
    /\ ExpiryInFuture
    /\ last.t0 > 0
    /\ last.input.accessToken # Undefined
    /\ last.input.refreshToken # Undefined

\* C3: jwt entered without `account` on a token whose accessTokenExpires is not
\* in the future and whose refresh token the backend accepts issues exactly one
\* call, to the refresh endpoint, and returns a token without an error tag.
C3_ExpiredTokenRefreshedOnce ==
    /\ IsRead
    /\ last.input.accessTokenExpires # NoExpiry
    /\ last.input.accessTokenExpires <= last.t0
    /\ last.input.refreshToken # Undefined
    /\ last.backend = "accepted"
    => /\ last.calls = [exchange |-> 0, refresh |-> 1]
       /\ last.output.error = Undefined

C3_Witness ==
    /\ IsRead
    /\ last.input.accessTokenExpires > 0
    /\ last.input.accessTokenExpires <= last.t0
    /\ last.input.error # Undefined
    /\ last.backend = "accepted"
    /\ last.calls.refresh = 1

\* C4: a refresh the backend accepts returns a token without an error tag whose
\* accessTokenExpires is strictly later than that of the token it was given.
C4_RefreshExtendsExpiry ==
    IsRefreshCall /\ last.backend = "accepted" =>
        /\ last.output.error = Undefined
        /\ last.output.accessTokenExpires # NoExpiry
        /\ last.output.accessTokenExpires > last.input.accessTokenExpires

C4_Witness ==
    /\ IsRefreshCall
    /\ last.backend = "accepted"
    /\ last.input.accessTokenExpires > 0
    /\ last.t0 = last.input.accessTokenExpires
    /\ last.output.accessTokenExpires = last.t1 + ACCESS_TOKEN_LIFETIME_MS

\* C5: a refresh the backend rejects (or that never reaches it) returns a token
\* tagged RefreshAccessTokenError without access token, refresh token or
\* usable expiry (the code stores 0), and with the user of the argument.
C5_RefreshFailureClearsCredentials ==
    IsRefreshCall /\ last.backend = "rejected" =>
        /\ last.output.error = RefreshAccessTokenError
        /\ last.output.accessToken = Undefined
        /\ last.output.refreshToken = Undefined
        /\ last.output.accessTokenExpires = 0
        /\ last.output.user = last.input.user

C5_Witness ==
    /\ last.fn = "refreshAccessToken"
    /\ last.backend = "rejected"
    /\ last.input.accessToken # Undefined
    /\ last.input.accessTokenExpires > 0
    /\ last.input.user # Undefined

\* C6: when the jwt callback delegates to refreshAccessToken and the refresh
\* fails, the returned token has no user and carries the error tag.
C6_RefreshFailureClearsProfile ==
    IsRead /\ last.calls.refresh > 0 /\ last.backend = "rejected" =>
        /\ last.output.user = Undefined
        /\ last.output.error # Undefined

\* C7: without a refresh token a refresh returns MissingRefreshTokenError and
\* issues no backend call, in refreshAccessToken called directly and in the
\* jwt callback on a token that is not valid any more.
C7_MissingRefreshTokenNoCall ==
    /\ last.fn \in {"jwt", "refreshAccessToken"}
    /\ ~last.signIn
    /\ last.input.refreshToken = Undefined
    /\ (last.fn = "jwt" => ~ExpiryInFuture)
    => /\ last.output.error = MissingRefreshTokenError
       /\ last.calls = NoCalls
       /\ last.backend = "none"

C7_Witness ==
    /\ last.fn = "refreshAccessToken"
    /\ last.input.refreshToken = Undefined
    /\ last.input.error # MissingRefreshTokenError
    /\ last.output.error = MissingRefreshTokenError

\* C8: refreshAccessToken on a token without refresh token returns a token
\* with no access token, no refresh token and no accessTokenExpires.
C8_MissingRefreshNoCredentials ==
    last.fn = "refreshAccessToken" /\ last.input.refreshToken = Undefined =>
        /\ last.output.accessToken = Undefined
        /\ last.output.refreshToken = Undefined
        /\ last.output.accessTokenExpires = NoExpiry

\* C9: when the backend rejects the exchange at sign-in, the returned token has
\* no access token, refresh token, expiry or user and is tagged
\* BackendLoginFailed, whatever the token held before, and the invocation
\* issued the one exchange call and no refresh call.
C9_ExchangeFailureClearsAll ==
    IsJwt /\ last.signIn /\ last.backend = "rejected" =>
        /\ last.output = [EmptyToken EXCEPT !.error = BackendLoginFailed]
        /\ last.calls = [exchange |-> 1, refresh |-> 0]

C9_Witness ==
    /\ IsJwt
    /\ last.signIn
    /\ last.backend = "rejected"
    /\ last.input.accessToken # Undefined
    /\ last.input.refreshToken # Undefined
    /\ last.input.user # Undefined

\* requests for the pages only teachers and admins may open
TeacherAdminPaths == {P_quizzes_new, P_quizzes_1_edit, P_quizzes_42_edit}

\* C10: on /quizzes/new and /quizzes/<number>/edit the guard sends a STUDENT
\* to the unauthorized page and lets a TEACHER or an ADMIN through.
C10_RoleRestrictedPaths ==
    last.fn = "middleware" /\ last.hasToken /\ last.path \in TeacherAdminPaths =>
        /\ last.input.user = "STUDENT" => last.outcome = "RedirectToUnauthorized"
        /\ last.input.user \in {"TEACHER", "ADMIN"} => last.outcome = "Allow"

C10_Witness ==
    /\ last.fn = "middleware"
    /\ last.path = P_quizzes_42_edit
    /\ last.input.user = "STUDENT"
    /\ last.input.accessToken # Undefined
    /\ last.outcome = "RedirectToUnauthorized"

IsGate == last.fn = "middleware"

\* the role the guard reads from the request's token
GateRole == UserRole(last.hasToken, last.input)

\* requests for pages that need a signed-in user of any role
AuthOnlyPaths == {P_attempts, P_attempts_7}

\* C11: on a path that requires authentication (and no particular role) the
\* guard answers RedirectToLogin when the role is absent and Allow when the
\* role is ADMIN, TEACHER or STUDENT.
C11_AuthRequiredPaths ==
    IsGate /\ last.path \in AuthOnlyPaths =>
        /\ GateRole = Undefined => last.outcome = "RedirectToLogin"
        /\ GateRole \in Roles => last.outcome = "Allow"

\* C12 as claimed: on a role-restricted path every request whose role is
\* neither TEACHER nor ADMIN, a request without session included, is sent to
\* the unauthorized page.
C12_RoleRuleFirst ==
    IsGate /\ last.path \in TeacherAdminPaths /\ GateRole \notin {"TEACHER", "ADMIN"} =>
        last.outcome = "RedirectToUnauthorized"

\* C12: on a role-restricted path a request whose role is neither TEACHER nor
\* ADMIN is sent to the unauthorized page when it carries a session token
\* (also one without user) and to the login page when it carries none: the
\* authorized callback runs before the role test.
C12_AuthorizedThenRole ==
    IsGate /\ last.path \in TeacherAdminPaths /\ GateRole \notin {"TEACHER", "ADMIN"} =>
        last.outcome = IF last.hasToken THEN "RedirectToUnauthorized"
                       ELSE "RedirectToLogin"

C12_Witness ==
    /\ IsGate
    /\ last.path = P_quizzes_new
    /\ last.hasToken
    /\ last.input.user = Undefined
    /\ last.outcome = "RedirectToUnauthorized"

\* C13: a request for a protected path made with a session whose token carries
\* an error tag is sent to the login page.
C13_ErrorSessionToLogin ==
    /\ IsGate
    /\ last.hasToken
    /\ last.input.error \in ErrorTags
    /\ last.path \in AuthOnlyPaths \cup TeacherAdminPaths
    => last.outcome = "RedirectToLogin"

C15_TokenAndProfileTogether ==
    IsJwt /\ last.output.error = Undefined =>
        (last.output.accessToken = Undefined <=> last.output.user = Undefined)

C15_Witness ==
    /\ IsRead
    /\ last.calls.refresh = 1
    /\ last.backend = "accepted"
    /\ last.output.accessToken # last.input.accessToken
    /\ last.output.user # Undefined

\* C16: a jwt invocation on a token that carries an error tag returns a token
\* without access token and with an error tag, unless it is a sign-in the
\* backend accepts.
C16_ErrorIsTerminal ==
    IsJwt /\ last.input.error # Undefined /\ ~(last.signIn /\ last.backend = "accepted") =>
        /\ last.output.accessToken = Undefined
        /\ last.output.error # Undefined

C16_Witness ==
    /\ IsRead
    /\ last.input.error = RefreshAccessTokenError
    /\ last.input.user # Undefined
    /\ last.output.error # Undefined
    /\ last.output.accessToken = Undefined

\* C17 as claimed: an error tag, once set, keeps its value over every later
\* jwt invocation that is not a successful exchange or refresh.
C17_TagKeepsItsValue ==
    IsJwt /\ last.input.error # Undefined /\ last.backend # "accepted" =>
        last.output.error = last.input.error

\* C17: an error tag, once set, is never cleared by a session read, but its
\* value is not kept: a read of a tagged token issues no call and returns
\* MissingRefreshTokenError, whatever the tag was; a rejected sign-in returns
\* BackendLoginFailed.
C17_TagBecomesMissingRefresh ==
    /\ IsRead /\ last.input.error # Undefined =>
          /\ last.output.error = MissingRefreshTokenError
          /\ last.calls = NoCalls
    /\ IsJwt /\ last.signIn /\ last.input.error # Undefined /\ last.backend = "rejected" =>
          last.output.error = BackendLoginFailed

C17_Witness ==
    /\ IsRead
    /\ last.input.error = BackendLoginFailed
    /\ last.output.error = MissingRefreshTokenError

\* C19: one jwt invocation issues at most one backend call: a sign-in one
\* exchange call and no refresh call, a read at most one refresh call and no
\* exchange call.
CallsOfOneInvocation(signIn, calls) ==
    /\ calls.exchange + calls.refresh <= 1
    /\ signIn => calls.refresh = 0
    /\ ~signIn => calls.exchange = 0

C19_AtMostOneCall ==
    /\ IsJwt => CallsOfOneInvocation(last.signIn, last.calls)
    /\ \A p \in Procs :
          pc[p] \in {"exchange", "refresh"} /\ inv[p].fn = "jwt" =>
              CallsOfOneInvocation(inv[p].signIn, inv[p].calls)

C19_Witness ==
    /\ IsRead
    /\ last.backend = "rejected"
    /\ last.calls = [exchange |-> 0, refresh |-> 1]

\* C20: after a refresh the backend accepts, the refresh token of the returned
\* record is the one of the response when the response has one and the one of
\* the argument otherwise, and the user is the one of the argument.
C20_RefreshTokenRotation ==
    IsRefreshCall /\ last.backend = "accepted" =>
        /\ last.data.refresh # Undefined => last.output.refreshToken = last.data.refresh
        /\ last.data.refresh = Undefined =>
              last.output.refreshToken = last.input.refreshToken
        /\ last.output.user = last.input.user

C20_Witness ==
    /\ IsRefreshCall
    /\ last.backend = "accepted"
    /\ last.data.refresh = Undefined
    /\ last.input.refreshToken # Undefined
    /\ last.output.refreshToken = last.input.refreshToken
    /\ last.input.user # Undefined

\* C18: a session read that finds the token expired and a refresh token
\* present issues its own refresh call whatever the other requests of the
\* session are doing, so two refresh calls of one session can be in flight.
C18_NoSingleFlight ==
    /\ \A p \in Procs :
          /\ pc[p] = "idle"
          /\ cookie
          /\ session.refreshToken # Undefined
          /\ session.accessTokenExpires <= now
          => ENABLED (ReadSession(p) /\ pc'[p] = "refresh")
    /\ \A p \in Procs : pc[p] = "refresh" => inv[p].calls.refresh = 1

C18_Witness ==
    /\ \A p \in Procs :
          /\ pc[p] = "refresh"
          /\ inv[p].calls.refresh = 1
          /\ inv[p].token.accessTokenExpires <= inv[p].t0
    /\ inv["req1"].token = inv["req2"].token

----------------------------------------------------------------------------
(* The guard as a function of path and role; the /quizzes/<id>/edit pattern *)

\* C21: two requests for the same path whose tokens give the same role (an
\* absent token and a token without user both give no role) get the same
\* outcome from the guard.
C21_OutcomeFromPathAndRole ==
    IsGate =>
        \A hasToken \in BOOLEAN, token \in {last.input, EmptyToken} :
            UserRole(hasToken, token) = GateRole =>
                Gate(last.path, hasToken, token) = last.outcome

\* The pieces of a path between its slashes, from index i on.
RECURSIVE SplitFrom(_, _, _)
SplitFrom(s, i, piece) ==
    IF i > Len(s) THEN <<piece>>
    ELSE IF s[i] = "/" THEN <<piece>> \o SplitFrom(s, i + 1, <<>>)
    ELSE SplitFrom(s, i + 1, Append(piece, s[i]))

\* the segments of an absolute path
Segments(pathname) == Tail(SplitFrom(pathname, 1, <<>>))

W_quizzes == <<"q", "u", "i", "z", "z", "e", "s">>
W_edit == <<"e", "d", "i", "t">>

\* /quizzes/<id>/edit with one non-empty identifier segment of any value
OneIdSegment(pathname) ==
    LET segs == Segments(pathname)
    IN  /\ Len(segs) = 3
        /\ segs[1] = W_quizzes
        /\ segs[2] # <<>>
        /\ segs[3] = W_edit

\* /quizzes/<id>/edit with an identifier made of decimal digits
NumericIdSegment(pathname) ==
    /\ OneIdSegment(pathname)
    /\ \A i \in 1..Len(Segments(pathname)[2]) : Segments(pathname)[2][i] \in Digits

\* a path that continues a /quizzes/<digits>/edit path with any text
HasNumericIdPrefix(pathname) ==
    \E k \in 1..Len(pathname) : NumericIdSegment(SubSeq(pathname, 1, k))

\* the requests under /quizzes/ that are not under /quizzes/new
QuizIdPaths ==
    {pathname \in Paths :
        StartsWith(pathname, P_quizzes_slash) /\ ~StartsWith(pathname, P_quizzes_new)}

\* C22 (as stated): both checks match exactly the paths with one non-empty
\* identifier segment of any value between /quizzes/ and /edit: a STUDENT is
\* sent to the unauthorized page exactly on these paths, and a request
\* without token is sent to the sign-in page exactly on these paths.
C22_AnyIdBothChecksAgree ==
    IsGate /\ last.path \in QuizIdPaths =>
        /\ last.hasToken /\ GateRole = "STUDENT" =>
              (last.outcome = "RedirectToUnauthorized" <=> OneIdSegment(last.path))
        /\ ~last.hasToken =>
              (last.outcome = "RedirectToLogin" <=> OneIdSegment(last.path))

\* C22 (amended): the role check matches exactly the paths whose identifier
\* segment is a non-empty run of decimal digits with nothing after /edit; the
\* authenticated-required check matches these paths and every path that
\* continues one of them.
C22_DigitsExactAndPrefix ==
    IsGate /\ last.path \in QuizIdPaths =>
        /\ last.hasToken /\ GateRole = "STUDENT" =>
              (last.outcome = "RedirectToUnauthorized" <=> NumericIdSegment(last.path))
        /\ ~last.hasToken =>
              (last.outcome = "RedirectToLogin" <=> HasNumericIdPrefix(last.path))

\* a request without token for /quizzes/1/edit/x is sent to the sign-in page
C22_Witness ==
    /\ IsGate
    /\ last.path = P_quizzes_1_edit_x
    /\ ~last.hasToken
    /\ last.outcome = "RedirectToLogin"

----------------------------------------------------------------------------
(* Concurrent refreshes against a backend that accepts every refresh call *)

\* C24: when the backend accepts every refresh call, each session read
\* returns a token without error and with an access token, and so does the
\* token the cookie holds, whichever result was stored last.
C24_ConcurrentReadsStayUsable ==
    /\ IsRead => last.output.error = Undefined /\ Truthy(last.output.accessToken)
    /\ session.error = Undefined /\ Truthy(session.accessToken)

\* a refresh of the expired initial session has returned while the cookie
\* holds the result of another refresh of that session
C24_Witness ==
    /\ IsRead
    /\ last.calls.refresh = 1
    /\ last.t0 = ACCESS_TOKEN_LIFETIME_MS
    /\ last.input.accessTokenExpires = ACCESS_TOKEN_LIFETIME_MS
    /\ session.accessTokenExpires > ACCESS_TOKEN_LIFETIME_MS
    /\ last.output # session

----------------------------------------------------------------------------
(* Expiry and access token *)

\* C25: a token returned by the jwt callback, and the token in the cookie,
\* has a non-zero accessTokenExpires only together with an access token; a
\* token the validity test accepts has an access token.
C25_ExpiryOnlyWithAccessToken ==
    /\ IsJwt /\ TruthyNum(last.output.accessTokenExpires) =>
          Truthy(last.output.accessToken)
    /\ TruthyNum(session.accessTokenExpires) => Truthy(session.accessToken)
    /\ IsRead /\ AccessTokenValid(last.input, last.t0) =>
          Truthy(last.output.accessToken)

\* a rejected refresh returned a token whose expiry was set before
C25_Witness ==
    /\ IsRead
    /\ last.backend = "rejected"
    /\ TruthyNum(last.input.accessTokenExpires)
    /\ last.output.accessTokenExpires = 0
    /\ ~Truthy(last.output.accessToken)

----------------------------------------------------------------------------
(* Failures of backend calls *)

\* the answers of the backend that are failures of the call
ApiFailures == {"error response", "no response", "setup error"}

\* the messages of a failed call: taken from the response body, or a fallback
ApiFailureMessages ==
    {<<m>> : m \in {m \in ApiBodyMessages : TruthyStr(m)}}
    \cup {<<"API request failed with status ", status>> : status \in ApiStatuses}
    \cup {<<"API request made but no response received.">>,
          <<"API request setup error: ", "axiosError.message">>}

\* C23: when a backend call fails, the code that asked for the data (the
\* component that called fetchApi, or the page that called the helper
\* getAttempts or getQuizzes) gets an error with a message from the response
\* body or a fallback string, and one request was sent.
C23_FailureReachesTheAsker ==
    last.fn = "fetchApi" /\ last.backend \in ApiFailures =>
        /\ last.returned.kind = "error"
        /\ last.returned.message \in ApiFailureMessages
        /\ last.requests = 1

----------------------------------------------------------------------------
(* The quiz management form *)

\* the number of options of question qIndex that are marked correct
CorrectCount(qIndex) ==
    Cardinality({k \in DOMAIN OptionsOf(quizData.questions, heap, qIndex) :
                    OptionsOf(quizData.questions, heap, qIndex)[k].is_correct})

\* C26: every SINGLE_MCQ question of the form has at most one option with
\* is_correct = true.
C26_SingleChoiceOneCorrect ==
    \A qIndex \in DOMAIN quizData.questions :
        quizData.questions[qIndex].question_type = "SINGLE_MCQ" =>
            CorrectCount(qIndex) <= 1

\* C27: a step of addAnswerOption or handleAnswerOptionChange for question
\* qIndex leaves the options of every other question as they were.
C27_OtherQuestionsUnchanged ==
    [][last'.fn \in {"addAnswerOption", "handleAnswerOptionChange"} =>
          \A i \in DOMAIN quizData.questions :
              i # last'.qIndex =>
                  OptionsOf(quizData'.questions, heap', i)
                      = OptionsOf(quizData.questions, heap, i)]_vars

\* C28: the form has at least one question, and every question that is not
\* TRUE_FALSE has at least one answer option.
C28_QuestionAndOptionRemain ==
    /\ Len(quizData.questions) >= 1
    /\ \A qIndex \in DOMAIN quizData.questions :
          quizData.questions[qIndex].question_type # "TRUE_FALSE" =>
              Len(OptionsOf(quizData.questions, heap, qIndex)) >= 1

\* removeAnswerOption has refused to remove the only option of a question
\* that had been TRUE_FALSE before (its array is not the shared initial one)
C28_Witness ==
    /\ last.fn = "removeAnswerOption"
    /\ last.alert
    /\ quizData.questions[last.qIndex].question_type # "TRUE_FALSE"
    /\ quizData.questions[last.qIndex].answer_options # InitialQuestionOptions
    /\ Len(quizData.questions) >= 2

----------------------------------------------------------------------------
(* The quiz attempt form *)

\* the entries of the payload for question qId
EntriesFor(qId) ==
    {k \in DOMAIN last.payload.answers : last.payload.answers[k].question_id = qId}

\* the question has no entry in answers, or an entry without selection
NothingSelected(qId) ==
    \/ qId \notin DOMAIN answers
    \/ /\ answers[qId].selectedOptionIds = <<>>
       /\ answers[qId].selectedAnswerBool = Undefined

\* C29: a payload handleSubmit sends has exactly one entry for every question
\* of the quiz and none for another id; the entry of a question that was never
\* answered, or whose selections were all deselected, has selected_option_ids
\* = null and selected_answer_bool = null.
C29_OneEntryPerQuestion ==
    last.fn = "handleSubmit" /\ last.sent =>
        /\ \A qId \in QuestionIds : Cardinality(EntriesFor(qId)) = 1
        /\ \A k \in DOMAIN last.payload.answers :
              last.payload.answers[k].question_id \in QuestionIds
        /\ \A qId \in QuestionIds : NothingSelected(qId) =>
              \A k \in EntriesFor(qId) :
                  /\ last.payload.answers[k].selected_option_ids = JsonNull
                  /\ last.payload.answers[k].selected_answer_bool = "null"

\* a payload was sent while the MULTI_MCQ question had all its selections
\* deselected, another question was answered and the third never touched
C29_Witness ==
    /\ last.fn = "handleSubmit"
    /\ last.sent
    /\ 30 \in DOMAIN answers
    /\ answers[30].selectedOptionIds = <<>>
    /\ 10 \in DOMAIN answers
    /\ 20 \notin DOMAIN answers

\* the selected option list of a question (empty when it has no entry)
Selected(qId) == CurrentAnswer(answers, qId).selectedOptionIds

\* C30: the selected list of a MULTI_MCQ question has no duplicates and holds
\* an option exactly when the option was clicked an odd number of times; the
\* list of a SINGLE_MCQ question holds exactly the option clicked last.
C30_TogglesAndLatestChoice ==
    \A i \in DOMAIN AttemptQuiz.questions :
        LET question == AttemptQuiz.questions[i]
            ids == Selected(question.id)
        IN  /\ question.question_type = "MULTI_MCQ" =>
                  /\ \A j, k \in DOMAIN ids : ids[j] = ids[k] => j = k
                  /\ \A option \in Range(question.answer_options) :
                        option \in Range(ids) <=> history.parity[option] = 1
            /\ question.question_type = "SINGLE_MCQ"
               /\ history.latest[question.id] # 0 =>
                  ids = <<history.latest[question.id]>>

\* an option of the MULTI_MCQ question was clicked a second time while
\* another one stays selected, and the SINGLE_MCQ question was answered
C30_Witness ==
    /\ last.fn = "handleAnswerChange"
    /\ last.option = 301
    /\ history.parity[301] = 0
    /\ Selected(30) = <<302>>
    /\ history.latest[10] = 102

====
